---- MODULE Spec2Model ----
(***************************************************************************)
(* A model of the HomeAdvisor scraper: the pagination run of               *)
(* HomeAdvisorScraper.scrape_all_pages with write_to_sheet and the top     *)
(* level of main (src/scraper.py), the per-page card deduplication of      *)
(* scrape_listings_from_page, the polling loop of                          *)
(* CaptchaSolver.solve_cloudflare_turnstile (src/captcha_solver.py),       *)
(* wait_for_cloudflare_challenge, the phone normalizer,                    *)
(* detect_total_pages, and the start of main up to the constructed         *)
(* scraper. Each component has its own specification over its own          *)
(* variables; the others stay idle.                                        *)
(***************************************************************************)
EXTENDS Integers, Sequences, FiniteSets, TLC

VARIABLES
    \* ---- main / scrape_all_pages / write_to_sheet ----
    pc,                   \* position of the single control thread
    total_pages,          \* TOTAL_PAGES returned by detect_total_pages
    start_page,           \* START_PAGE
    page_num,             \* loop variable of scrape_all_pages
    retry,                \* inner retry loop variable (0 or 1)
    listings,             \* result of the last scrape_listings_from_page
    i,                    \* index of the business being enriched
    all_businesses,       \* records collected so far
    empty_pages_count,
    last_processed_page,
    sheet,                \* data rows appended to the sheet during this run
    businesses,           \* main's variable receiving the result
    driver_open,          \* the Selenium session is open
    exit_kind,            \* how main left its try block
    stopped_early,        \* what the summary reports
    w_site,               \* call site of the running write_to_sheet
    w_rows,               \* rows of the running write_to_sheet
    attempt,              \* loop variable of write_to_sheet
    retry_delay,
    \* ---- history (not read by the program) ----
    served,               \* the listings each visited page ended up with
    sleeps,               \* the sleeps of the current write_to_sheet call
    raised_sites,         \* call sites whose write_to_sheet raised
    append_failures,      \* failed append_rows calls of the run
    last_enrich,          \* outcome of enrich_business_data in the last step
    last_scrape,          \* outcome of scrape_listings_from_page in the last step
    w_calls,              \* append_rows calls of the current write_to_sheet
    w_base,               \* rows in the sheet when the current call started
    w_outcome,            \* how the write_to_sheet ended by the last step went
    struct_stop,          \* the structural stop condition fired
    \* ---- one call of scrape_listings_from_page, card by card ----
    l_pc,                 \* "idle", "pass", "refind" or "done"
    l_pass,               \* 1: the first pass, 2: the pass after the longer wait
    l_cards,              \* business_cards of the current pass
    l_k,                  \* index of the next card
    seen_urls,
    seen_names,
    l_listings,           \* listings
    l_emitted,            \* history: index of the card behind each listing
    \* ---- one call of CaptchaSolver.solve_cloudflare_turnstile ----
    c_pc,                 \* "idle", "start", "loop", "poll" or "done"
    c_enabled,            \* self.enabled
    c_clock,              \* time.time() - start_time, in seconds
    c_ready_at,           \* when the service has the token (0: never)
    c_result,             \* "none", "token" or "failed"
    c_poll_time,          \* history: when the poll that got the token was sent
    c_response,           \* history: the answer to the last poll
    c_token,              \* the token returned ("" when none)
    c_submit,             \* history: how the submission to in.php went
    c_submits,            \* history: number of submissions to in.php
    c_polled,             \* history: res.php was polled for the solution
    c_balance,            \* what get_balance returned ("unasked" before)
    \* ---- one call of wait_for_cloudflare_challenge and its caller ----
    h_pc,                 \* "idle", "detect", "solve", "wait", "returned", "done"
    h_undetected,         \* self.using_undetected
    h_headless,           \* self.headless
    h_solver,             \* self.captcha_solver and self.captcha_solver.enabled
    h_page,               \* the page the browser shows
    h_clock,              \* time.time() - start_time, in seconds
    h_max_wait,
    h_interval,           \* check_interval
    h_result,             \* "none", "success" or "failure"
    h_path,               \* history: the return statement that was taken
    h_detected,           \* history: "Cloudflare challenge detected" was printed
    h_last_error,         \* history: where the last step caught an error
    h_other_error,        \* history: an error outside auto-solving was caught
    h_listings,           \* what scrape_listings_from_page does after the wait
    \* ---- one phone candidate through the normalizer ----
    p_pc,                 \* "idle", "strip", "check", "again" or "done"
    p_input,              \* the text the phone pattern matched
    p_digits,             \* phone after re.sub(r'[^\d]', '', ...)
    p_phone,              \* the value returned or stored (<<>>: none)
    p_again,              \* the normalizer applied to p_phone
    \* ---- one call of detect_total_pages ----
    d_pc,                 \* "idle", "start", "elements", "source", "links", "done"
    d_selector_ok,        \* the browser accepts the selector list of line 316
    d_head,               \* text of the page source before the body elements
    d_elements,           \* texts of the elements the selector list finds
    d_links,              \* page numbers of the pagination links
    d_k,                  \* index of the next element
    d_result,             \* the value returned (-1: none yet)
    d_failed,             \* history: a driver call other than line 316 raised
    \* ---- main (or ScraperThread.run) up to the constructed scraper ----
    s_pc,                 \* "idle", a stage of the start, "ready" or "exited"
    s_entry,              \* "cli": main, "gui": start_scraping and the thread
    s_argc,               \* number of command line arguments given
    s_url_given,          \* the URL typed or passed is not empty
    s_credentials,        \* os.path.exists(CREDENTIALS_FILE)
    s_api_key,            \* a CAPTCHA API key is configured
    s_browser,            \* history: a browser session was created
    s_captcha_contacted,  \* history: the CAPTCHA service was contacted
    s_store_touched,      \* history: the sheet service was contacted
    s_message,            \* the error message shown, "none" if none
    s_scraper,            \* the scraper reference is assigned
    s_closed,             \* history: close() was called on the scraper
    \* ---- extract_business_info_from_card: the name ----
    n_pc,                 \* "idle", "try" or "done"
    n_card,               \* the four name elements of the card, in the order tried
    n_k,                  \* the strategy tried next
    business_name,        \* data['business_name'] (0: '')
    \* ---- enrich_business_data / search_profile_url ----
    q_pc,                 \* "idle", "search", "links", "assign" or "done"
    profile_links,        \* the links found on the result page
    q_k,                  \* index of the link checked next
    q_found,              \* the value search_profile_url returns (0: None)
    profile_url,          \* business_data['profile_url'] (0: '')
    q_continues,          \* enrich_business_data went on to the profile page
    \* ---- enrich_business_data: the phone ----
    e_pc,                 \* "idle", "profile", "website", "google", "email" or "done"
    e_profile,            \* what the profile page gives, and whether there is one
    e_site_phone,         \* find_phone_on_website finds a phone
    e_google_phone,       \* search_google_for_phone finds a phone
    website,              \* business_data['website'] is not empty
    phone,                \* business_data['phone'] is not empty
    address,              \* business_data['address'] is not empty
    e_attempts,           \* history: the phone sources asked, in order
    e_late,               \* history: a phone source was asked with the phone filled
    \* ---- scraper_gui.py: the worker thread and Stop ----
    g_worker,             \* ScraperThread.run: "idle", "between", "inside", "finally", "done", "terminated"
    g_gui,                \* the GUI thread: "idle", "watching", "stopping" or "stopped"
    g_op,                 \* the session operation the worker is inside
    g_ops,                \* number of session operations started
    g_session,            \* the browser session: "none", "open" or "closed"
    g_closes,             \* history: number of calls of close() on the session
    g_overlap             \* history: close() was called while the worker was inside

runVars == <<pc, total_pages, start_page, page_num, retry, listings, i,
             all_businesses, empty_pages_count, last_processed_page, sheet,
             businesses, driver_open, exit_kind, stopped_early, w_site,
             w_rows, attempt, retry_delay, served, sleeps, raised_sites,
             append_failures, last_enrich, last_scrape, w_calls, w_base, w_outcome,
             struct_stop>>

lstVars == <<l_pc, l_pass, l_cards, l_k, seen_urls, seen_names, l_listings,
             l_emitted>>

capVars == <<c_pc, c_enabled, c_clock, c_ready_at, c_result, c_poll_time,
             c_response, c_token, c_submit, c_submits, c_polled, c_balance>>

chVars == <<h_pc, h_undetected, h_headless, h_solver, h_page, h_clock,
            h_max_wait, h_interval, h_result, h_path, h_detected,
            h_last_error, h_other_error, h_listings>>

phVars == <<p_pc, p_input, p_digits, p_phone, p_again>>

dtVars == <<d_pc, d_selector_ok, d_head, d_elements, d_links, d_k, d_result,
            d_failed>>

stVars == <<s_pc, s_entry, s_argc, s_url_given, s_credentials, s_api_key,
            s_browser, s_captcha_contacted, s_store_touched, s_message,
            s_scraper, s_closed>>

nmVars == <<n_pc, n_card, n_k, business_name>>

srVars == <<q_pc, profile_links, q_k, q_found, profile_url, q_continues>>

enVars == <<e_pc, e_profile, e_site_phone, e_google_phone, website, phone, address, e_attempts, e_late>>

guVars == <<g_worker, g_gui, g_op, g_ops, g_session, g_closes, g_overlap>>

vars == <<runVars, lstVars, capVars, chVars, phVars, dtVars, stVars, nmVars,
         srVars, enVars, guVars>>

\* What the steps of one component leave alone: the other components.
notRun == <<lstVars, capVars, chVars, phVars, dtVars, stVars, nmVars,
            srVars, enVars, guVars>>
notListing == <<runVars, capVars, chVars, phVars, dtVars, stVars, nmVars,
                srVars, enVars, guVars>>
notCaptcha == <<runVars, lstVars, chVars, phVars, dtVars, stVars, nmVars,
                srVars, enVars, guVars>>
notChallenge == <<runVars, lstVars, capVars, phVars, dtVars, stVars,
                  nmVars, srVars, enVars, guVars>>
notPhone == <<runVars, lstVars, capVars, chVars, dtVars, stVars, nmVars,
              srVars, enVars, guVars>>
notDetect == <<runVars, lstVars, capVars, chVars, phVars, stVars, nmVars,
               srVars, enVars, guVars>>
notStartup == <<runVars, lstVars, capVars, chVars, phVars, dtVars, nmVars,
                srVars, enVars, guVars>>
notName == <<runVars, lstVars, capVars, chVars, phVars, dtVars, stVars,
             srVars, enVars, guVars>>
notSearch == <<runVars, lstVars, capVars, chVars, phVars, dtVars, stVars,
               nmVars, enVars, guVars>>
notEnrich == <<runVars, lstVars, capVars, chVars, phVars, dtVars, stVars,
               nmVars, srVars, guVars>>
notGui == <<runVars, lstVars, capVars, chVars, phVars, dtVars, stVars,
            nmVars, srVars, enVars>>

----
\* Bounds of the model.
MaxPages == 3
MaxAppendFailures == 3
MaxCards == 3
MaxLatency == 2
MaxElements == 2
MaxArgs == 3

\* Program constants.
BatchSize == 10
max_retries == 3
InitialRetryDelay == 2
PageAttempts == 2
max_wait == 120
PollInterval == 5
DefaultMaxWait == 60
UndetectedMaxWait == 30
UndetectedInterval == 2
DefaultInterval == 5
ErrorPause == 1
RedirectPause == 3
ItemsPerPage == 10
DefaultPages == 1

Unset == "unset"
Unassigned == [assigned |-> FALSE, value |-> <<>>]
Assigned(v) == [assigned |-> TRUE, value |-> v]
NoOutcome == [result |-> "none"]

\* The answer to a poll: the JSON object's status and request, or the
\* exception of requests.get or response.json().
Response(st, rq) == [status |-> st, request |-> rq]
NoResponse == Response(-1, "none")
RaisedResponse == Response(-1, "exception")
NotReadyMarker == "CAPCHA_NOT_READY"

----
\* Records: business_name and profile_url as numbers, 0 standing for ''.
Card(n, u) == [business_name |-> n, profile_url |-> u]

\* The listing pages the site may serve to one extraction.
PageFull == [k \in 1..10 |-> Card(k, 100 + k)]
PageNoProfile == [k \in 1..5 |-> Card(10 + k, 0)]
PageMixed == <<Card(1, 101), Card(21, 0), Card(21, 0), Card(22, 122)>>
PageSet == {<<>>, PageFull, PageNoProfile, PageMixed}

----
\* scrape_listings_from_page: the deduplicating pass over the cards.
\* unique_id: the profile URL, else the business name (both are strings in
\* the program and go into the one set seen_urls).
Identity(card) ==
    IF card.profile_url # 0 THEN card.profile_url ELSE card.business_name

EmptyPass == [seen_urls |-> {}, seen_names |-> {}, listings |-> <<>>]

AcceptsCard(st, card) ==
    /\ card.business_name # 0
    /\ Identity(card) \notin st.seen_urls
    /\ card.business_name \notin st.seen_names

ProcessCard(st, card) ==
    IF AcceptsCard(st, card)
    THEN [seen_urls |-> st.seen_urls \cup {Identity(card)},
          seen_names |-> st.seen_names \cup {card.business_name},
          listings |-> Append(st.listings, card)]
    ELSE st

RECURSIVE DedupePass(_, _)
DedupePass(st, cards) ==
    IF cards = <<>> THEN st
    ELSE DedupePass(ProcessCard(st, Head(cards)), Tail(cards))

\* The first pass, and the second pass over the re-found cards when the
\* first found no listing.
ScrapeListings(cards, cards_again) ==
    LET first == DedupePass(EmptyPass, cards).listings
    IN  IF Len(first) = 0
        THEN DedupePass(EmptyPass, cards_again).listings
        ELSE first

----
\* scrape_all_pages: helpers.
WithoutProfile(ls) == Cardinality({k \in DOMAIN ls : ls[k].profile_url = 0})

StopConditionInverted(ls) ==
    Len(ls) - WithoutProfile(ls) = Len(ls) /\ Len(ls) > 0
StopCondition(ls) == WithoutProfile(ls) = Len(ls) /\ Len(ls) > 0

\* "if not listings": the page is counted as empty and skipped.
SkipsEmptyPageNever(ls) == FALSE
SkipsEmptyPage(ls) == Len(ls) = 0

LastRows(s, n) == SubSeq(s, Len(s) - n + 1, Len(s))

GroupDue(n) == n % BatchSize = 0

RemainderRows(s) == LastRows(s, Len(s) % BatchSize)

\* The rows of the write after the loop: write_to_sheet(all_businesses).
FinalRowsRemainder(s) == LastRows(s, Len(s) % BatchSize)
FinalRows(s) == s

\* write_to_sheet: helpers.
HasRetryLeftAlways(a) == TRUE
HasRetryLeft(a) == a < max_retries - 1

NextDelay(d) == d * 2

\* The call sites of write_to_sheet that let its exception escape
\* scrape_all_pages: only the per-page remainder write is outside a try.
Propagates(site) == site = "remainder"

\* enrich_business_data: a record without profile_url may receive the one
\* that search_profile_url found; the other fields are not modelled.
FoundUrl(b) == 100 + b.business_name
EnrichOutcomes(b) ==
    IF b.profile_url = 0 THEN {"ok", "found", "raised"} ELSE {"ok", "raised"}
Enriched(b, outcome) ==
    IF outcome = "found" THEN [b EXCEPT !.profile_url = FoundUrl(b)] ELSE b

\* all_businesses after the try/except around enrich_business_data: the
\* enriched record, or the listing as it was when enrichment raised.
CollectedTwiceWhenFailed(all, b, outcome) ==
    IF outcome = "raised" THEN Append(Append(all, b), b)
    ELSE Append(all, Enriched(b, outcome))
Collected(all, b, outcome) == Append(all, Enriched(b, outcome))

\* The retry loop of a page: "for retry in range(2)".
MoreAttemptsThree(r) == r + 1 < PageAttempts + 1
MoreAttempts(r) == r + 1 < PageAttempts

----
ListingIdle ==
    /\ l_pc = "idle"
    /\ l_pass = 1
    /\ l_cards = <<>>
    /\ l_k = 1
    /\ seen_urls = {}
    /\ seen_names = {}
    /\ l_listings = <<>>
    /\ l_emitted = <<>>

CaptchaIdle ==
    /\ c_pc = "idle"
    /\ c_enabled = FALSE
    /\ c_clock = 0
    /\ c_ready_at = 0
    /\ c_result = "none"
    /\ c_poll_time = 0
    /\ c_response = NoResponse
    /\ c_token = ""
    /\ c_submit = "none"
    /\ c_submits = 0
    /\ c_polled = FALSE
    /\ c_balance = "unasked"

\* A page as the challenge resolver sees it.
\*   wait_marker:  'just a moment', 'verify you are human' or 'checking your
\*                 browser' is in the page source;
\*   other_marker: 'cloudflare', 'cf-turnstile' or 'challenges.cloudflare.com'
\*                 is in the page source;
\*   on_site:      'homeadvisor' is in the current URL;
\*   site_content: a business card, business-info, contact-information,
\*                 pagination summary or pro-list container element exists;
\*   heading:      an h1, h2 or h3 element exists;
\*   token:        a Turnstile response input with a value longer than 10.
Pages ==
    [wait_marker : BOOLEAN, other_marker : BOOLEAN, on_site : BOOLEAN,
     site_content : BOOLEAN, heading : BOOLEAN, token : BOOLEAN]

BlankPage ==
    [wait_marker |-> FALSE, other_marker |-> FALSE, on_site |-> FALSE,
     site_content |-> FALSE, heading |-> FALSE, token |-> FALSE]

ChallengeIdle ==
    /\ h_pc = "idle"
    /\ h_undetected = FALSE
    /\ h_headless = FALSE
    /\ h_solver = FALSE
    /\ h_page = BlankPage
    /\ h_clock = 0
    /\ h_max_wait = DefaultMaxWait
    /\ h_interval = 0
    /\ h_result = "none"
    /\ h_path = "none"
    /\ h_detected = FALSE
    /\ h_last_error = "none"
    /\ h_other_error = FALSE
    /\ h_listings = "none"

NameIdle ==
    /\ n_pc = "idle"
    /\ n_card = <<>>
    /\ n_k = 0
    /\ business_name = 0

SearchIdle ==
    /\ q_pc = "idle"
    /\ profile_links = <<>>
    /\ q_k = 0
    /\ q_found = 0
    /\ profile_url = 0
    /\ q_continues = FALSE

EnrichIdle ==
    /\ e_pc = "idle"
    /\ e_profile = [known |-> FALSE, raises |-> FALSE, website |-> FALSE,
                    phone |-> FALSE, address |-> FALSE]
    /\ e_site_phone = FALSE
    /\ e_google_phone = FALSE
    /\ website = FALSE
    /\ phone = FALSE
    /\ address = FALSE
    /\ e_attempts = <<>>
    /\ e_late = FALSE

GuiIdle ==
    /\ g_worker = "idle"
    /\ g_gui = "idle"
    /\ g_op = "none"
    /\ g_ops = 0
    /\ g_session = "none"
    /\ g_closes = 0
    /\ g_overlap = FALSE

StartupIdle ==
    /\ s_pc = "idle"
    /\ s_entry = "cli"
    /\ s_argc = 0
    /\ s_url_given = FALSE
    /\ s_credentials = FALSE
    /\ s_api_key = FALSE
    /\ s_browser = FALSE
    /\ s_captcha_contacted = FALSE
    /\ s_store_touched = FALSE
    /\ s_message = "none"
    /\ s_scraper = FALSE
    /\ s_closed = FALSE

DetectIdle ==
    /\ d_pc = "idle"
    /\ d_selector_ok = FALSE
    /\ d_head = <<>>
    /\ d_elements = <<>>
    /\ d_links = {}
    /\ d_k = 1
    /\ d_result = -1
    /\ d_failed = FALSE

PhoneIdle ==
    /\ p_pc = "idle"
    /\ p_input = <<>>
    /\ p_digits = <<>>
    /\ p_phone = <<>>
    /\ p_again = <<>>

\* The variables of main, scrape_all_pages and write_to_sheet at the start
\* of scrape_all_pages(total_pages = tp, start_page = sp), control at `at`.
RunStart(at, tp, sp, open) ==
    /\ pc = at
    /\ total_pages = tp
    /\ start_page = sp
    /\ page_num = sp
    /\ retry = 0
    /\ listings = <<>>
    /\ i = 1
    /\ all_businesses = <<>>
    /\ empty_pages_count = 0
    /\ last_processed_page = sp - 1
    /\ sheet = <<>>
    /\ businesses = Unassigned
    /\ driver_open = open
    /\ exit_kind = "none"
    /\ stopped_early = Unset
    /\ w_site = "none"
    /\ w_rows = <<>>
    /\ attempt = 0
    /\ retry_delay = InitialRetryDelay
    /\ served = <<>>
    /\ sleeps = <<>>
    /\ raised_sites = {}
    /\ append_failures = 0
    /\ last_enrich = "none"
    /\ last_scrape = "none"
    /\ w_calls = 0
    /\ w_base = 0
    /\ w_outcome = NoOutcome
    /\ struct_stop = FALSE

RunIdle == RunStart("idle", 0, 1, FALSE)

\* State after construction of the scraper in main: the browser is open.
Init ==
    /\ ListingIdle
    /\ CaptchaIdle
    /\ ChallengeIdle
    /\ PhoneIdle
    /\ DetectIdle
    /\ StartupIdle
    /\ GuiIdle
    /\ EnrichIdle
    /\ SearchIdle
    /\ NameIdle
    /\ \E tp \in 0..MaxPages, sp \in {1, 2} : RunStart("main", tp, sp, TRUE)

writeVars == <<w_site, w_rows, attempt, retry_delay, sleeps, w_calls, w_base>>

\* Entry of write_to_sheet(rows) from call site `site`.
CallWrite(site, rows) ==
    /\ pc' = "write"
    /\ w_site' = site
    /\ w_rows' = rows
    /\ attempt' = 0
    /\ retry_delay' = InitialRetryDelay
    /\ sleeps' = <<>>
    /\ w_calls' = 0
    /\ w_base' = Len(sheet)

\* Return from write_to_sheet, normally or by its exception: its locals die.
LeaveWrite ==
    /\ w_site' = "none"
    /\ w_rows' = <<>>
    /\ attempt' = 0
    /\ retry_delay' = InitialRetryDelay
    /\ sleeps' = <<>>
    /\ w_calls' = 0
    /\ w_base' = 0

\* Where control goes when write_to_sheet returns or raises at `site`.
Resume(site, raised) ==
    CASE site = "group" ->
            /\ pc' = "enrich"
            /\ i' = i + 1
            /\ UNCHANGED <<page_num, exit_kind>>
      [] site = "remainder" ->
            IF raised /\ Propagates(site)
            THEN /\ pc' = "closing"
                 /\ exit_kind' = "error"
                 /\ UNCHANGED <<page_num, i>>
            ELSE /\ pc' = "loop"
                 /\ page_num' = page_num + 1
                 /\ UNCHANGED <<exit_kind, i>>
      [] site = "stop" ->
            /\ pc' = "final"
            /\ UNCHANGED <<page_num, exit_kind, i>>
      [] OTHER ->
            /\ pc' = "summary"
            /\ UNCHANGED <<page_num, exit_kind, i>>

\* What no step of scrape_all_pages or write_to_sheet changes.
mainVars == <<total_pages, start_page, businesses, driver_open, stopped_early>>

\* main: detect_total_pages, then the header row when starting at page 1
\* (sheet.clear and sheet.append_row, which may raise).
MainStart ==
    /\ pc = "main"
    /\ \E ok \in BOOLEAN :
        /\ (start_page # 1 \/ total_pages = 0) => ok
        /\ IF total_pages = 0
           THEN pc' = "closing" /\ exit_kind' = "zero_pages"
           ELSE IF ok
           THEN pc' = "loop" /\ exit_kind' = exit_kind
           ELSE pc' = "closing" /\ exit_kind' = "error"
    /\ last_enrich' = "none"
    /\ last_scrape' = "none"
    /\ w_outcome' = NoOutcome
    /\ UNCHANGED <<notRun, mainVars, writeVars, page_num, retry, listings, i,
                   all_businesses, empty_pages_count, last_processed_page,
                   sheet, served, raised_sites, append_failures, struct_stop>>

\* for page_num in range(start_page, total_pages + 1)
LoopHead ==
    /\ pc = "loop"
    /\ IF page_num > total_pages
       THEN pc' = "final" /\ UNCHANGED <<listings, retry>>
       ELSE pc' = "scrape" /\ listings' = <<>> /\ retry' = 0
    /\ last_enrich' = "none"
    /\ last_scrape' = "none"
    /\ w_outcome' = NoOutcome
    /\ UNCHANGED <<notRun, mainVars, writeVars, page_num, i, all_businesses,
                   empty_pages_count, last_processed_page, sheet, exit_kind,
                   served, raised_sites, append_failures, struct_stop>>

\* One pass of the retry loop: scrape_listings_from_page(page_num), which
\* returns listings or raises (listings then keeps its value, None or []).
ScrapePage ==
    /\ pc = "scrape"
    /\ \E cards \in PageSet, cards_again \in PageSet, raised \in BOOLEAN :
        LET ls == IF raised THEN listings
                  ELSE ScrapeListings(cards, cards_again) IN
        /\ listings' = ls
        /\ last_scrape' = IF raised THEN "raised" ELSE "returned"
        /\ IF ~raised /\ Len(ls) > 0
           THEN pc' = "check" /\ retry' = retry
           ELSE IF MoreAttempts(retry)
           THEN pc' = pc /\ retry' = retry + 1
           ELSE pc' = "check" /\ retry' = retry
    /\ last_enrich' = "none"
    /\ w_outcome' = NoOutcome
    /\ UNCHANGED <<notRun, mainVars, writeVars, page_num, i, all_businesses,
                   empty_pages_count, last_processed_page, sheet, exit_kind,
                   served, raised_sites, append_failures, struct_stop>>

\* After the retry loop: the empty page, the structural stop, or enrichment.
CheckPage ==
    /\ pc = "check"
    /\ served' = Append(served, listings)
    /\ IF SkipsEmptyPage(listings)
       THEN /\ empty_pages_count' = empty_pages_count + 1
            /\ page_num' = page_num + 1
            /\ pc' = "loop"
            /\ UNCHANGED <<last_processed_page, struct_stop, i, writeVars>>
       ELSE IF StopCondition(listings)
       THEN /\ last_processed_page' = page_num
            /\ struct_stop' = TRUE
            /\ IF Len(all_businesses) > 0
               THEN CallWrite("stop", all_businesses)
               ELSE pc' = "final" /\ UNCHANGED writeVars
            /\ UNCHANGED <<empty_pages_count, page_num, i>>
       ELSE /\ last_processed_page' = page_num
            /\ i' = 1
            /\ pc' = "enrich"
            /\ UNCHANGED <<empty_pages_count, page_num, struct_stop,
                           writeVars>>
    /\ last_enrich' = "none"
    /\ last_scrape' = "none"
    /\ w_outcome' = NoOutcome
    /\ UNCHANGED <<notRun, mainVars, retry, listings, all_businesses, sheet,
                   exit_kind, raised_sites, append_failures>>

\* One iteration of the enrichment loop, with the write of a full group.
EnrichBusiness ==
    /\ pc = "enrich"
    /\ i <= Len(listings)
    /\ \E outcome \in EnrichOutcomes(listings[i]) :
        LET collected == Collected(all_businesses, listings[i], outcome)
        IN  /\ last_enrich' = outcome
            /\ last_scrape' = "none"
            /\ w_outcome' = NoOutcome
            /\ all_businesses' = collected
            /\ IF GroupDue(Len(collected))
               THEN CallWrite("group", LastRows(collected, BatchSize))
                    /\ i' = i
               ELSE pc' = pc /\ i' = i + 1 /\ UNCHANGED writeVars
    /\ UNCHANGED <<notRun, mainVars, page_num, retry, listings, empty_pages_count,
                   last_processed_page, sheet, exit_kind, served,
                   raised_sites, append_failures, struct_stop>>

\* After the enrichment loop: the write of the remaining businesses.
WriteRemaining ==
    /\ pc = "enrich"
    /\ i > Len(listings)
    /\ IF Len(all_businesses) % BatchSize # 0
       THEN CallWrite("remainder", RemainderRows(all_businesses))
            /\ page_num' = page_num
       ELSE pc' = "loop" /\ page_num' = page_num + 1 /\ UNCHANGED writeVars
    /\ last_enrich' = "none"
    /\ last_scrape' = "none"
    /\ w_outcome' = NoOutcome
    /\ UNCHANGED <<notRun, mainVars, retry, listings, i, all_businesses,
                   empty_pages_count, last_processed_page, sheet, exit_kind,
                   served, raised_sites, append_failures, struct_stop>>

\* One iteration of the retry loop of write_to_sheet: sheet.append_rows.
AppendRows ==
    /\ pc = "write"
    /\ \E ok \in BOOLEAN :
        /\ ~ok => append_failures < MaxAppendFailures
        /\ IF ok
           THEN /\ sheet' = sheet \o w_rows
                /\ w_outcome' = [result |-> "returned",
                                 calls |-> w_calls + 1,
                                 failures |-> w_calls,
                                 sleeps |-> sleeps,
                                 rows |-> Len(w_rows),
                                 added |-> Len(sheet') - w_base]
                /\ LeaveWrite
                /\ Resume(w_site, FALSE)
                /\ UNCHANGED <<raised_sites, append_failures>>
           ELSE /\ append_failures' = append_failures + 1
                /\ sheet' = sheet
                /\ IF HasRetryLeft(attempt)
                   THEN /\ sleeps' = Append(sleeps, retry_delay)
                        /\ retry_delay' = NextDelay(retry_delay)
                        /\ attempt' = attempt + 1
                        /\ w_calls' = w_calls + 1
                        /\ w_outcome' = NoOutcome
                        /\ UNCHANGED <<pc, i, page_num, exit_kind, w_site,
                                       w_rows, w_base, raised_sites>>
                   ELSE /\ raised_sites' = raised_sites \cup {w_site}
                        /\ w_outcome' = [result |-> "raised",
                                         calls |-> w_calls + 1,
                                         failures |-> w_calls + 1,
                                         sleeps |-> sleeps,
                                         rows |-> Len(w_rows),
                                         added |-> Len(sheet') - w_base]
                        /\ LeaveWrite
                        /\ Resume(w_site, TRUE)
    /\ last_enrich' = "none"
    /\ last_scrape' = "none"
    /\ UNCHANGED <<notRun, mainVars, retry, listings, all_businesses,
                   empty_pages_count, last_processed_page, served,
                   struct_stop>>

\* After the loop: the final write of all_businesses.
FinalWrite ==
    /\ pc = "final"
    /\ IF Len(all_businesses) > 0
       THEN CallWrite("final", FinalRows(all_businesses))
       ELSE pc' = "summary" /\ UNCHANGED writeVars
    /\ last_enrich' = "none"
    /\ last_scrape' = "none"
    /\ w_outcome' = NoOutcome
    /\ UNCHANGED <<notRun, mainVars, page_num, retry, listings, i, all_businesses,
                   empty_pages_count, last_processed_page, sheet, exit_kind,
                   served, raised_sites, append_failures, struct_stop>>

\* The summary and the return to main.
Summary ==
    /\ pc = "summary"
    /\ stopped_early' = (last_processed_page < total_pages)
    /\ businesses' = Assigned(all_businesses)
    /\ exit_kind' = "done"
    /\ pc' = "closing"
    /\ last_enrich' = "none"
    /\ last_scrape' = "none"
    /\ w_outcome' = NoOutcome
    /\ UNCHANGED <<notRun, total_pages, start_page, driver_open, writeVars, page_num,
                   retry, listings, i, all_businesses, empty_pages_count,
                   last_processed_page, sheet, served, raised_sites,
                   append_failures, struct_stop>>

Running ==
    pc \in {"main", "loop", "scrape", "check", "enrich", "write", "final",
            "summary"}

\* KeyboardInterrupt inside main's try block: no handler of the run catches
\* it, main's except clause prints, and the finally clause follows.
Interrupt ==
    /\ Running
    /\ pc' = "closing"
    /\ exit_kind' = "interrupt"
    /\ last_enrich' = "none"
    /\ last_scrape' = "none"
    /\ w_outcome' = NoOutcome
    /\ UNCHANGED <<notRun, mainVars, writeVars, page_num, retry, listings, i,
                   all_businesses, empty_pages_count, last_processed_page,
                   sheet, served, raised_sites, append_failures, struct_stop>>

\* main's finally clause: scraper.close().
Close ==
    /\ pc = "closing"
    /\ driver_open' = FALSE
    /\ pc' = "exited"
    /\ UNCHANGED <<notRun, total_pages, start_page, businesses, stopped_early,
                   writeVars, page_num, retry, listings, i, all_businesses,
                   empty_pages_count, last_processed_page, sheet, exit_kind,
                   served, raised_sites, append_failures, last_enrich,
                   last_scrape, w_outcome, struct_stop>>

Next ==
    \/ MainStart
    \/ LoopHead
    \/ ScrapePage
    \/ CheckPage
    \/ EnrichBusiness
    \/ WriteRemaining
    \/ AppendRows
    \/ FinalWrite
    \/ Summary
    \/ Interrupt
    \/ Close

Spec == Init /\ [][Next]_vars

----
\* scrape_listings_from_page, from the search for the cards on: one call,
\* card by card. The page holds the cards `dom` once it is fully loaded; a
\* find_elements sees those loaded so far. A card whose extraction raises is
\* skipped like a card without a name.
CardNames == 0..2
CardUrls == {0, 101, 102}
ListingCards == {Card(n, u) : n \in CardNames, u \in CardUrls}
CardSeqs == UNION {[1..n -> ListingCards] : n \in 0..MaxCards}
Prefixes(s) == {SubSeq(s, 1, n) : n \in 0..Len(s)}

InitListing ==
    /\ RunIdle
    /\ CaptchaIdle
    /\ ChallengeIdle
    /\ PhoneIdle
    /\ DetectIdle
    /\ StartupIdle
    /\ GuiIdle
    /\ EnrichIdle
    /\ SearchIdle
    /\ NameIdle
    /\ l_pc = "pass"
    /\ l_pass = 1
    /\ \E dom \in CardSeqs : l_cards \in Prefixes(dom)
    /\ l_k = 1
    /\ seen_urls = {}
    /\ seen_names = {}
    /\ l_listings = <<>>
    /\ l_emitted = <<>>

\* One iteration of "for card in business_cards".
ExtractCard ==
    /\ l_pc = "pass"
    /\ l_k <= Len(l_cards)
    /\ LET st == [seen_urls |-> seen_urls, seen_names |-> seen_names,
                  listings |-> l_listings]
           nx == ProcessCard(st, l_cards[l_k])
       IN  /\ seen_urls' = nx.seen_urls
           /\ seen_names' = nx.seen_names
           /\ l_listings' = nx.listings
           /\ l_emitted' = IF AcceptsCard(st, l_cards[l_k])
                           THEN Append(l_emitted, l_k) ELSE l_emitted
    /\ l_k' = l_k + 1
    /\ UNCHANGED <<notListing, l_pc, l_pass, l_cards>>

\* End of a pass: a first pass without listings leads to the longer wait.
EndPass ==
    /\ l_pc = "pass"
    /\ l_k > Len(l_cards)
    /\ l_pc' = IF Len(l_listings) = 0 /\ l_pass = 1 THEN "refind" ELSE "done"
    /\ UNCHANGED <<notListing, l_pass, l_cards, l_k, seen_urls,
                   seen_names, l_listings, l_emitted>>

\* The second find_elements: the cards loaded by now, at least those seen
\* before; the second pass starts with fresh seen_urls and seen_names.
Refind ==
    /\ l_pc = "refind"
    /\ \E again \in {c \in CardSeqs : l_cards \in Prefixes(c)} :
        IF Len(again) > 0
        THEN /\ l_pc' = "pass"
             /\ l_pass' = 2
             /\ l_cards' = again
             /\ l_k' = 1
        ELSE /\ l_pc' = "done"
             /\ UNCHANGED <<l_pass, l_cards, l_k>>
    /\ seen_urls' = {}
    /\ seen_names' = {}
    /\ UNCHANGED <<notListing, l_listings, l_emitted>>

NextListing ==
    \/ ExtractCard
    \/ EndPass
    \/ Refind

SpecListing == InitListing /\ [][NextListing]_vars

----
\* CaptchaSolver.solve_cloudflare_turnstile (solve_recaptcha_v2 has the same
\* submit and the same polling loop). Time is in whole seconds since
\* start_time; a request takes 0..MaxLatency seconds.
ReadyTimes == {0, 3, 100, 120, 121}

InitCaptcha ==
    /\ RunIdle
    /\ ListingIdle
    /\ ChallengeIdle
    /\ PhoneIdle
    /\ DetectIdle
    /\ StartupIdle
    /\ GuiIdle
    /\ EnrichIdle
    /\ SearchIdle
    /\ NameIdle
    /\ c_pc = "start"
    /\ c_enabled \in BOOLEAN
    /\ c_clock = 0
    /\ c_ready_at \in ReadyTimes
    /\ c_result = "none"
    /\ c_poll_time = 0
    /\ c_response = NoResponse
    /\ c_token = ""
    /\ c_submit = "none"
    /\ c_submits = 0
    /\ c_polled = FALSE
    /\ c_balance = "unasked"

\* What the except clause around a request of the solver turns an error
\* into: None for the solve operation and for the balance query.
SolverErrorRaises(site) == "raised"
SolverErrorResult(site) == IF site = "balance" THEN "no_balance" ELSE "failed"

\* How a request to the service can go: answered with status 1, answered
\* with another status, answered with something that is not the expected
\* JSON object, or failed in the network.
RequestOutcomes == {"accepted", "rejected", "malformed", "exception"}

\* The enabled check and the submission to in.php.
Submit ==
    /\ c_pc = "start"
    /\ IF ~c_enabled
       THEN /\ c_pc' = "done"
            /\ c_result' = "failed"
            /\ UNCHANGED <<c_submit, c_submits>>
       ELSE \E resp \in RequestOutcomes :
              /\ c_submit' = resp
              /\ c_submits' = c_submits + 1
              /\ CASE resp = "accepted" ->
                         c_pc' = "loop" /\ c_result' = c_result
                   [] resp = "rejected" ->
                         c_pc' = "done" /\ c_result' = "failed"
                   [] OTHER ->
                         /\ c_pc' = "done"
                         /\ c_result' = SolverErrorResult("submit")
    /\ UNCHANGED <<notCaptcha, c_enabled, c_clock, c_ready_at,
                   c_poll_time, c_response, c_token, c_polled, c_balance>>

\* get_balance, called when the solver is created.
GetBalance ==
    /\ c_pc = "start"
    /\ c_balance = "unasked"
    /\ IF ~c_enabled
       THEN c_balance' = "no_balance"
       ELSE \E resp \in RequestOutcomes :
              c_balance' = CASE resp = "accepted" -> "balance"
                             [] resp = "rejected" -> "no_balance"
                             [] OTHER -> SolverErrorResult("balance")
    /\ UNCHANGED <<notCaptcha, c_pc, c_enabled, c_clock, c_ready_at, c_result,
                   c_poll_time, c_response, c_token, c_submit, c_submits,
                   c_polled>>

\* while time.time() - start_time < max_wait: time.sleep(5)
WithinCeiling(t) == t < max_wait

LoopCheck ==
    /\ c_pc = "loop"
    /\ IF WithinCeiling(c_clock)
       THEN /\ c_clock' = c_clock + PollInterval
            /\ c_pc' = "poll"
            /\ c_result' = c_result
       ELSE /\ c_pc' = "done"
            /\ c_result' = "failed"
            /\ c_clock' = c_clock
    /\ UNCHANGED <<notCaptcha, c_enabled, c_ready_at, c_poll_time,
                   c_response, c_token, c_submit, c_submits, c_polled,
                   c_balance>>

\* What res.php may answer to a poll sent at time t: the token once it is
\* ready and "not ready" before, an error code, or an object whose status
\* and request disagree.
PollResponses(t) ==
    (IF c_ready_at # 0 /\ t >= c_ready_at
     THEN {Response(1, "TOKEN")}
     ELSE {Response(0, NotReadyMarker)})
    \cup {Response(0, "ERROR_CAPTCHA_UNSOLVABLE"), Response(1, NotReadyMarker),
          RaisedResponse}

\* The branches on the result of a poll.
PollVerdict(resp) ==
    CASE resp = RaisedResponse -> SolverErrorResult("poll")
      [] resp # RaisedResponse /\ resp.status = 1 -> "token"
      [] resp # RaisedResponse /\ resp.status # 1
            /\ resp.request = NotReadyMarker -> "continue"
      [] OTHER -> "failed"

\* The poll: requests.get and the three branches on its result.
Poll ==
    /\ c_pc = "poll"
    /\ \E resp \in PollResponses(c_clock), latency \in 0..MaxLatency :
        /\ c_clock' = c_clock + latency
        /\ c_response' = resp
        /\ CASE PollVerdict(resp) = "token" ->
                   /\ c_result' = "token"
                   /\ c_token' = resp.request
                   /\ c_poll_time' = c_clock
                   /\ c_pc' = "done"
             [] PollVerdict(resp) = "continue" ->
                   /\ c_pc' = "loop"
                   /\ UNCHANGED <<c_result, c_poll_time, c_token>>
             [] OTHER ->
                   /\ c_result' = PollVerdict(resp)
                   /\ c_pc' = "done"
                   /\ UNCHANGED <<c_poll_time, c_token>>
    /\ c_polled' = TRUE
    /\ UNCHANGED <<notCaptcha, c_enabled, c_ready_at, c_submit, c_submits,
                   c_balance>>

NextCaptcha ==
    \/ Submit
    \/ GetBalance
    \/ LoopCheck
    \/ Poll

SpecCaptcha == InitCaptcha /\ [][NextCaptcha]_vars

----
\* wait_for_cloudflare_challenge(max_wait = 60), and what
\* scrape_listings_from_page does with its result.

\* is_cloudflare: the markers the detection looks for.
IsCloudflare(p) == p.wait_marker \/ p.other_marker

\* The markers the waiting loop and the final check look for.
OnChallengePage(p) == p.wait_marker

\* has_content of the four content checks.
QuickContent(p) == p.on_site /\ (p.site_content \/ p.heading)
LoopContent(p) == p.on_site /\ p.site_content
ClearedContent(p) == p.on_site /\ (p.site_content \/ p.heading)
FinalContent(p) == p.on_site

\* Where an error raised at `site` is caught: "pass" (the step goes on),
\* "wait" (the waiting phase follows), "continue" (the next tick follows)
\* or "failure" (return False).
HandlerEscapes(site) == "raise"
Handler(site) ==
    CASE site = "quick" -> "pass"
      [] site \in {"solve", "inject"} -> "wait"
      [] site = "tick" -> "continue"
      [] OTHER -> "failure"

InitChallenge ==
    /\ RunIdle
    /\ ListingIdle
    /\ CaptchaIdle
    /\ PhoneIdle
    /\ DetectIdle
    /\ StartupIdle
    /\ GuiIdle
    /\ EnrichIdle
    /\ SearchIdle
    /\ NameIdle
    /\ h_pc = "detect"
    /\ h_undetected \in BOOLEAN
    /\ h_headless \in BOOLEAN
    /\ h_solver \in BOOLEAN
    /\ h_page \in Pages
    /\ h_clock = 0
    /\ h_max_wait = DefaultMaxWait
    /\ h_interval = 0
    /\ h_result = "none"
    /\ h_path = "none"
    /\ h_detected = FALSE
    /\ h_last_error = "none"
    /\ h_other_error = FALSE
    /\ h_listings = "none"

\* A return statement of wait_for_cloudflare_challenge.
Return(result, path) ==
    /\ h_pc' = "returned"
    /\ h_result' = result
    /\ h_path' = path

\* From the start to the end of challenge detection.
Detect ==
    /\ h_pc = "detect"
    /\ \E err \in {"none", "quick", "detect"} :
        LET detection ==
                IF ~IsCloudflare(h_page)
                THEN /\ Return("success", "not_cloudflare")
                     /\ UNCHANGED <<h_detected, h_max_wait, h_interval>>
                ELSE /\ h_detected' = TRUE
                     /\ h_max_wait' =
                           IF h_undetected /\ h_max_wait > UndetectedMaxWait
                           THEN UndetectedMaxWait ELSE h_max_wait
                     /\ h_interval' = IF h_undetected THEN UndetectedInterval
                                      ELSE DefaultInterval
                     /\ h_pc' = IF h_solver THEN "solve" ELSE "wait"
                     /\ UNCHANGED <<h_result, h_path>>
            failed ==
                /\ Return("failure", "error")
                /\ UNCHANGED <<h_detected, h_max_wait, h_interval>>
            escaped ==
                /\ Return("raised", "error")
                /\ UNCHANGED <<h_detected, h_max_wait, h_interval>>
        IN  /\ err = "quick" => h_undetected
            /\ h_last_error' = err
            /\ h_other_error' = (h_other_error \/ err # "none")
            /\ CASE err # "none" /\ Handler(err) = "failure" -> failed
                 [] err # "none" /\ Handler(err) = "raise" -> escaped
                 [] err = "none" /\ h_undetected /\ h_page.on_site
                                 /\ QuickContent(h_page) ->
                       /\ Return("success", "quick")
                       /\ UNCHANGED <<h_detected, h_max_wait, h_interval>>
                 [] OTHER -> detection
    /\ UNCHANGED <<notChallenge, h_undetected, h_headless, h_solver, h_page,
                   h_clock, h_listings>>

\* The attempt to solve the Turnstile widget through the solver service.
\* Whatever happens, the waiting phase follows; the clock starts there.
AutoSolve ==
    /\ h_pc = "solve"
    /\ \E outcome \in {"no_widget", "no_site_key", "no_token", "injected",
                       "inject", "solve"}, after \in Pages :
        LET err == IF outcome \in {"inject", "solve"} THEN outcome ELSE "none"
        IN  /\ h_last_error' = err
            /\ h_page' = after
            /\ CASE err # "none" /\ Handler(err) = "failure" ->
                       Return("failure", "error")
                 [] err # "none" /\ Handler(err) = "raise" ->
                       Return("raised", "error")
                 [] OTHER ->
                       /\ h_pc' = "wait"
                       /\ UNCHANGED <<h_result, h_path>>
    /\ h_clock' = 0
    /\ UNCHANGED <<notChallenge, h_undetected, h_headless, h_solver,
                   h_max_wait, h_interval, h_detected, h_other_error,
                   h_listings>>

\* The pauses of an iteration that found the challenge unresolved on page p:
\* time.sleep(check_interval), after time.sleep(3) when a response token
\* was seen.
TickPauseNone(p) == 0
TickPause(p) == h_interval + (IF p.token THEN RedirectPause ELSE 0)

\* One iteration of "while time.time() - start_time < max_wait". The page
\* read at the start of the iteration is h_page; `after` is the page after
\* the pauses of the iteration.
Tick ==
    /\ h_pc = "wait"
    /\ h_clock < h_max_wait
    /\ \E err \in {"none", "tick"}, after \in Pages :
        LET dom == IF h_page.token THEN after ELSE h_page
            waits ==
                /\ h_pc' = h_pc
                /\ UNCHANGED <<h_result, h_path>>
        IN  /\ h_last_error' = err
            /\ h_other_error' = (h_other_error \/ err # "none")
            /\ CASE err # "none" /\ Handler(err) = "failure" ->
                       /\ Return("failure", "error")
                       /\ UNCHANGED <<h_page, h_clock>>
                 [] err # "none" /\ Handler(err) = "raise" ->
                       /\ Return("raised", "error")
                       /\ UNCHANGED <<h_page, h_clock>>
                 [] err # "none" /\ Handler(err) \notin {"failure", "raise"} ->
                       /\ waits
                       /\ h_page' = after
                       /\ h_clock' = h_clock + ErrorPause
                 [] err = "none" /\ h_undetected /\ h_page.on_site
                                 /\ LoopContent(h_page) ->
                       /\ Return("success", "content")
                       /\ UNCHANGED <<h_page, h_clock>>
                 [] err = "none" /\ ~(h_undetected /\ h_page.on_site
                                       /\ LoopContent(h_page))
                                 /\ h_page.token /\ ~OnChallengePage(after) ->
                       /\ Return("success", "token")
                       /\ h_page' = after
                       /\ h_clock' = h_clock + RedirectPause
                 [] OTHER ->
                       IF /\ ~OnChallengePage(h_page)
                          /\ h_page.on_site
                          /\ ClearedContent(dom)
                       THEN /\ Return("success", "cleared")
                            /\ h_page' = dom
                            /\ UNCHANGED h_clock
                       ELSE /\ waits
                            /\ h_page' = after
                            /\ h_clock' = h_clock + TickPause(h_page)
    /\ UNCHANGED <<notChallenge, h_undetected, h_headless, h_solver,
                   h_max_wait, h_interval, h_detected, h_listings>>

\* After the loop: the final check, then the operator or failure.
FinalCheck ==
    /\ h_pc = "wait"
    /\ h_clock >= h_max_wait
    /\ \E err \in {"none", "final"} :
        /\ h_last_error' = err
        /\ h_other_error' = (h_other_error \/ err # "none")
        /\ CASE err # "none" /\ Handler(err) = "raise" ->
                   Return("raised", "error") /\ UNCHANGED h_page
             [] err # "none" /\ Handler(err) # "raise" ->
                   Return("failure", "error") /\ UNCHANGED h_page
             [] err = "none" /\ ~OnChallengePage(h_page) /\ h_page.on_site
                             /\ FinalContent(h_page) ->
                   Return("success", "final") /\ UNCHANGED h_page
             [] OTHER ->
                   IF ~h_headless
                   THEN /\ Return("success", "manual")
                        /\ h_page' \in Pages
                   ELSE /\ Return("failure", "timeout")
                        /\ UNCHANGED h_page
    /\ UNCHANGED <<notChallenge, h_undetected, h_headless, h_solver, h_clock,
                   h_max_wait, h_interval, h_detected, h_listings>>

\* scrape_listings_from_page: "if not self.wait_for_cloudflare_challenge():
\* return []".
AfterWait ==
    /\ h_pc = "returned"
    /\ h_pc' = "done"
    /\ h_listings' = CASE h_result = "success" -> "proceeds"
                       [] h_result = "failure" -> "empty"
                       [] OTHER -> "raised"
    /\ UNCHANGED <<notChallenge, h_undetected, h_headless, h_solver, h_page,
                   h_clock, h_max_wait, h_interval, h_result, h_path,
                   h_detected, h_last_error, h_other_error>>

NextChallenge ==
    \/ Detect
    \/ AutoSolve
    \/ Tick
    \/ FinalCheck
    \/ AfterWait

SpecChallenge == InitChallenge /\ [][NextChallenge]_vars

----
\* The phone normalizer, the same code in find_phone_on_website,
\* search_google_for_phone and get_data_from_profile_page: a text is a
\* sequence of one-character strings, <<>> stands for no phone value.
DigitChars == {"0", "1", "2", "3", "4", "5", "6", "7", "8", "9"}

\* re.sub(r'[^\d]', '', text)
IsDigit(c) == c \in DigitChars
StripNonDigits(text) == SelectSeq(text, IsDigit)

\* len(phone) == 10 or (len(phone) == 11 and phone[0] == '1')
AcceptsAnyEleven(d) == Len(d) = 10 \/ Len(d) = 11
AcceptsDigits(d) == Len(d) = 10 \/ (Len(d) = 11 /\ d[1] = "1")

\* if len(phone) == 11: phone = phone[1:]
LocalNumber(d) == IF Len(d) = 11 THEN Tail(d) ELSE d

\* f"({phone[:3]}) {phone[3:6]}-{phone[6:]}"
FormatPhoneDotted(d) ==
    SubSeq(d, 1, 3) \o <<".">> \o SubSeq(d, 4, 6) \o <<".">>
        \o SubSeq(d, 7, Len(d))
FormatPhone(d) ==
    <<"(">> \o SubSeq(d, 1, 3) \o <<")", " ">> \o SubSeq(d, 4, 6)
        \o <<"-">> \o SubSeq(d, 7, Len(d))

NormalizePhone(text) ==
    LET d == StripNonDigits(text)
    IN  IF AcceptsDigits(d) THEN FormatPhone(LocalNumber(d)) ELSE <<>>

\* The candidates: what the phone patterns can match, and texts with a digit
\* more or less around it.
Leads == {<<>>, <<"1">>, <<"+", "1">>, <<"+", "1", " ">>, <<"2">>,
          <<"1", "1">>}
Opens == {<<>>, <<"(">>}
Closes == {<<>>, <<")">>}
Separators == {<<>>, <<"-">>, <<".">>, <<" ">>}
AreaCodes == {<<"7", "3", "2">>, <<"1", "0", "0">>}
Exchanges == {<<"4", "1", "6">>}
Lines == {<<"7", "7", "1", "9">>, <<"7", "7", "1">>, <<"7", "7", "1", "9", "0">>}
Candidates ==
    {lead \o open \o area \o close \o s1 \o exch \o s2 \o line :
        lead \in Leads, open \in Opens, area \in AreaCodes,
        close \in Closes, s1 \in Separators, exch \in Exchanges,
        s2 \in Separators, line \in Lines}

InitPhone ==
    /\ RunIdle
    /\ ListingIdle
    /\ CaptchaIdle
    /\ ChallengeIdle
    /\ DetectIdle
    /\ StartupIdle
    /\ GuiIdle
    /\ EnrichIdle
    /\ SearchIdle
    /\ NameIdle
    /\ p_pc = "strip"
    /\ p_input \in Candidates
    /\ p_digits = <<>>
    /\ p_phone = <<>>
    /\ p_again = <<>>

\* phone = re.sub(r'[^\d]', '', match)
Strip ==
    /\ p_pc = "strip"
    /\ p_digits' = StripNonDigits(p_input)
    /\ p_pc' = "check"
    /\ UNCHANGED <<notPhone, p_input, p_phone, p_again>>

\* The length test, the removal of the leading 1 and the formatting.
CheckAndFormat ==
    /\ p_pc = "check"
    /\ IF AcceptsDigits(p_digits)
       THEN /\ p_phone' = FormatPhone(LocalNumber(p_digits))
            /\ p_pc' = "again"
       ELSE /\ p_phone' = <<>>
            /\ p_pc' = "done"
    /\ UNCHANGED <<notPhone, p_input, p_digits, p_again>>

\* The normalizer applied to the value it produced.
Renormalize ==
    /\ p_pc = "again"
    /\ p_again' = NormalizePhone(p_phone)
    /\ p_pc' = "done"
    /\ UNCHANGED <<notPhone, p_input, p_digits, p_phone>>

NextPhone ==
    \/ Strip
    \/ CheckAndFormat
    \/ Renormalize

SpecPhone == InitPhone /\ [][NextPhone]_vars

----
\* detect_total_pages. A text is a sequence of tokens: a word, a number
\* (its decimal digits) or a range "X-Y"; white space separates them.
Word(w) == [kind |-> "word", word |-> w, digits |-> <<>>]
Number(ds) == [kind |-> "num", word |-> "", digits |-> ds]
Range == [kind |-> "range", word |-> "", digits |-> <<>>]

\* re.search(r'(?:Showing\s+)?\d+-\d+\s+of\s+(\d+)', text, re.IGNORECASE):
\* group 1 of the leftmost match, <<>> when there is none.
IsOf(t) == t.kind = "word" /\ t.word \in {"of", "Of", "OF", "oF"}
MatchAt(text, k) ==
    /\ k + 2 <= Len(text)
    /\ text[k].kind = "range"
    /\ IsOf(text[k + 1])
    /\ text[k + 2].kind = "num"
MatchStarts(text) == {k \in DOMAIN text : MatchAt(text, k)}
FirstMatch(text) ==
    IF MatchStarts(text) = {} THEN <<>>
    ELSE LET k == CHOOSE m \in MatchStarts(text) :
                      \A n \in MatchStarts(text) : m <= n
         IN  text[k + 2].digits

\* int(match.group(1))
RECURSIVE ParseInt(_)
ParseInt(ds) ==
    IF ds = <<>> THEN 0
    ELSE ParseInt(SubSeq(ds, 1, Len(ds) - 1)) * 10 + ds[Len(ds)]

\* total_pages = (total_items + 9) // 10
PagesFor(total_items) == (total_items + ItemsPerPage - 1) \div ItemsPerPage

RECURSIVE Flatten(_)
Flatten(texts) ==
    IF texts = <<>> THEN <<>> ELSE Head(texts) \o Flatten(Tail(texts))

\* driver.page_source, as far as the pattern is concerned.
PageSource == d_head \o Flatten(d_elements)

MaxPage(links) ==
    CHOOSE m \in links \cup {DefaultPages} :
        \A n \in links \cup {DefaultPages} : n <= m

\* The pages served: totals, summary texts, elements, head texts, links.
Totals == {<<0>>, <<5>>, <<1, 0>>, <<1, 1>>, <<1, 0, 5, 0>>, <<1, 0, 5, 1>>}
SummaryText(z) == <<Word("Showing"), Range, Word("of"), Number(z)>>
ElementTexts == {<<Word("Pros")>>} \cup {SummaryText(z) : z \in Totals}
ElementSeqs == UNION {[1..n -> ElementTexts] : n \in 0..MaxElements}
HeadTexts == {<<>>, <<Word("reviews"), Range, Word("OF"), Number(<<2, 5>>)>>}
LinkSets == {{}, {2, 3}}

InitDetect ==
    /\ RunIdle
    /\ ListingIdle
    /\ CaptchaIdle
    /\ ChallengeIdle
    /\ PhoneIdle
    /\ StartupIdle
    /\ GuiIdle
    /\ EnrichIdle
    /\ SearchIdle
    /\ NameIdle
    /\ d_pc = "start"
    /\ d_selector_ok \in BOOLEAN
    /\ d_head \in HeadTexts
    /\ d_elements \in ElementSeqs
    /\ d_links \in LinkSets
    /\ d_k = 1
    /\ d_result = -1
    /\ d_failed = FALSE

\* driver.get, the wait, and find_elements with the selector list, which
\* raises into the bare except when the browser rejects the list.
LoadFirstPage ==
    /\ d_pc = "start"
    /\ \E err \in BOOLEAN :
        /\ d_failed' = err
        /\ IF err
           THEN d_pc' = "done" /\ d_result' = DefaultPages
           ELSE /\ d_pc' = IF d_selector_ok THEN "elements" ELSE "source"
                /\ d_result' = d_result
    /\ UNCHANGED <<notDetect, d_selector_ok, d_head, d_elements, d_links, d_k>>

\* One iteration of "for elem in pagination_elements".
CheckElement ==
    /\ d_pc = "elements"
    /\ IF d_k > Len(d_elements)
       THEN d_pc' = "source" /\ UNCHANGED <<d_k, d_result, d_failed>>
       ELSE \E err \in BOOLEAN :
              /\ d_failed' = (d_failed \/ err)
              /\ IF err
                 THEN d_pc' = "source" /\ UNCHANGED <<d_k, d_result>>
                 ELSE IF FirstMatch(d_elements[d_k]) # <<>>
                 THEN /\ d_result' =
                            PagesFor(ParseInt(FirstMatch(d_elements[d_k])))
                      /\ d_pc' = "done"
                      /\ d_k' = d_k
                 ELSE /\ d_k' = d_k + 1
                      /\ UNCHANGED <<d_pc, d_result>>
    /\ UNCHANGED <<notDetect, d_selector_ok, d_head, d_elements, d_links>>

\* The alternative: the pattern in driver.page_source.
SearchPageSource ==
    /\ d_pc = "source"
    /\ \E err \in BOOLEAN :
        /\ d_failed' = (d_failed \/ err)
        /\ IF ~err /\ FirstMatch(PageSource) # <<>>
           THEN /\ d_result' = PagesFor(ParseInt(FirstMatch(PageSource)))
                /\ d_pc' = "done"
           ELSE /\ d_pc' = "links"
                /\ d_result' = d_result
    /\ UNCHANGED <<notDetect, d_selector_ok, d_head, d_elements, d_links, d_k>>

\* The fallback: the largest page number of the pagination links, else 1.
PaginationLinks ==
    /\ d_pc = "links"
    /\ \E err \in BOOLEAN :
        /\ d_failed' = (d_failed \/ err)
        /\ d_result' = IF ~err /\ MaxPage(d_links) > 1
                       THEN MaxPage(d_links) ELSE DefaultPages
    /\ d_pc' = "done"
    /\ UNCHANGED <<notDetect, d_selector_ok, d_head, d_elements, d_links, d_k>>

NextDetect ==
    \/ LoadFirstPage
    \/ CheckElement
    \/ SearchPageSource
    \/ PaginationLinks

SpecDetect == InitDetect /\ [][NextDetect]_vars

----
\* The start of the program, from the reading of the configuration to the
\* constructed HomeAdvisorScraper: main, and start_scraping followed by
\* ScraperThread.run, which go through the same stages.
NextStageWithoutCheck(stage) ==
    CASE stage = "arguments" -> "solver"
      [] stage = "credentials" -> "solver"
      [] stage = "solver" -> "driver"
      [] stage = "driver" -> "sheet"
      [] OTHER -> "ready"
NextStage(stage) ==
    CASE stage = "arguments" -> "credentials"
      [] stage = "credentials" -> "solver"
      [] stage = "solver" -> "driver"
      [] stage = "driver" -> "sheet"
      [] OTHER -> "ready"

InitStartup ==
    /\ RunIdle
    /\ ListingIdle
    /\ CaptchaIdle
    /\ ChallengeIdle
    /\ PhoneIdle
    /\ DetectIdle
    /\ NameIdle
    /\ SearchIdle
    /\ EnrichIdle
    /\ GuiIdle
    /\ s_pc = "arguments"
    /\ s_entry \in {"cli", "gui"}
    /\ s_argc \in 0..MaxArgs
    /\ s_url_given \in BOOLEAN
    /\ s_credentials \in BOOLEAN
    /\ s_api_key \in BOOLEAN
    /\ s_browser = FALSE
    /\ s_captcha_contacted = FALSE
    /\ s_store_touched = FALSE
    /\ s_message = "none"
    /\ s_scraper = FALSE
    /\ s_closed = FALSE

startupInputs ==
    <<s_entry, s_argc, s_url_given, s_credentials, s_api_key, s_closed>>

\* The URL, the start page and the API key: from the command line, else
\* asked for (main), or from the form (start_scraping). An empty URL that
\* was asked for ends the start.
ReadArguments ==
    /\ s_pc = "arguments"
    /\ IF (s_entry = "gui" \/ s_argc = 0) /\ ~s_url_given
       THEN s_pc' = "exited" /\ s_message' = "no_url"
       ELSE s_pc' = NextStage("arguments") /\ s_message' = s_message
    /\ UNCHANGED <<notStartup, startupInputs, s_browser, s_captcha_contacted,
                   s_store_touched, s_scraper>>

\* if not os.path.exists(CREDENTIALS_FILE): message and return.
CheckCredentials ==
    /\ s_pc = "credentials"
    /\ IF ~s_credentials
       THEN s_pc' = "exited" /\ s_message' = "no_credentials"
       ELSE s_pc' = NextStage("credentials") /\ s_message' = s_message
    /\ UNCHANGED <<notStartup, startupInputs, s_browser, s_captcha_contacted,
                   s_store_touched, s_scraper>>

\* HomeAdvisorScraper.__init__: the solver and its get_balance request.
CreateSolver ==
    /\ s_pc = "solver"
    /\ s_captcha_contacted' = (s_captcha_contacted \/ s_api_key)
    /\ s_pc' = NextStage("solver")
    /\ UNCHANGED <<notStartup, startupInputs, s_browser, s_store_touched,
                   s_message, s_scraper>>

\* HomeAdvisorScraper.__init__: the Chrome session; a failure is re-raised.
CreateDriver ==
    /\ s_pc = "driver"
    /\ \E ok \in BOOLEAN :
        IF ok
        THEN s_browser' = TRUE /\ s_pc' = NextStage("driver")
                               /\ s_message' = s_message
        ELSE s_browser' = s_browser /\ s_pc' = "raised"
                                    /\ s_message' = s_message
    /\ UNCHANGED <<notStartup, startupInputs, s_captcha_contacted,
                   s_store_touched, s_scraper>>

\* HomeAdvisorScraper.__init__: the credentials are read (the file must
\* exist) and the sheet is opened; an error leaves the constructor. The
\* scraper reference is assigned when the constructor returns.
OpenSheet ==
    /\ s_pc = "sheet"
    /\ \E ok \in BOOLEAN :
        /\ ~s_credentials => ~ok
        /\ s_store_touched' = (s_store_touched \/ s_credentials)
        /\ IF ok
           THEN s_pc' = NextStage("sheet") /\ s_message' = s_message
           ELSE s_pc' = "raised" /\ s_message' = s_message
        /\ s_scraper' = ok
    /\ UNCHANGED <<notStartup, startupInputs, s_browser, s_captcha_contacted>>

\* close() on the way out of an entry point whose constructor raised. In
\* main the constructor is called before the try, so its finally is not
\* reached; ScraperThread.run reaches its finally, which closes only
\* "if self.scraper".
ClosesOnError(entry, scraper) == entry = "gui" /\ scraper

\* An error of the constructor leaves the entry point: it goes out of main,
\* or is reported by ScraperThread.run.
LeaveStart ==
    /\ s_pc = "raised"
    /\ s_closed' = (s_closed \/ ClosesOnError(s_entry, s_scraper))
    /\ s_pc' = "exited"
    /\ s_message' = "init_error"
    /\ UNCHANGED <<notStartup, s_entry, s_argc, s_url_given, s_credentials,
                   s_api_key, s_browser, s_captcha_contacted,
                   s_store_touched, s_scraper>>

NextStartup ==
    \/ ReadArguments
    \/ CheckCredentials
    \/ CreateSolver
    \/ CreateDriver
    \/ OpenSheet
    \/ LeaveStart

SpecStartup == InitStartup /\ [][NextStartup]_vars

----
\* extract_business_info_from_card: the business name. The card offers four
\* places for the name, tried in order: the desktop heading, the mobile
\* heading, the generic heading, the accessible label of the profile link.
\* A place is found or not (find_element raises when it is not), and its text
\* is a name or 0, the empty string (a heading that is not displayed has the
\* text '', a label may be missing or hold no name before its parenthesis).
MaxText == 2
NameElement(found, text) == [found |-> found, text |-> text]
NameElements ==
    {NameElement(FALSE, 0)} \cup {NameElement(TRUE, t) : t \in 0..MaxText}
Strategies == 4

InitName ==
    /\ RunIdle
    /\ ListingIdle
    /\ CaptchaIdle
    /\ ChallengeIdle
    /\ PhoneIdle
    /\ DetectIdle
    /\ StartupIdle
    /\ GuiIdle
    /\ EnrichIdle
    /\ SearchIdle
    /\ n_pc = "try"
    /\ n_card \in [1..Strategies -> NameElements]
    /\ n_k = 1
    /\ business_name = 0

\* One of the three headings: find_element, then name_elem.text.strip(); the
\* except leads to the next strategy.
TryHeading ==
    /\ n_pc = "try"
    /\ n_k < Strategies
    /\ IF n_card[n_k].found
       THEN /\ business_name' = n_card[n_k].text
            /\ n_pc' = "done"
            /\ n_k' = n_k
       ELSE /\ n_k' = n_k + 1
            /\ UNCHANGED <<n_pc, business_name>>
    /\ UNCHANGED <<notName, n_card>>

\* The last resort: the aria-label of the profile link, cut before its
\* parenthesis; nothing is assigned when there is no label or no link.
TryLabel ==
    /\ n_pc = "try"
    /\ n_k = Strategies
    /\ business_name' = IF n_card[n_k].found /\ n_card[n_k].text # 0
                        THEN n_card[n_k].text ELSE business_name
    /\ n_pc' = "done"
    /\ UNCHANGED <<notName, n_card, n_k>>

NextName ==
    \/ TryHeading
    \/ TryLabel

SpecName == InitName /\ [][NextName]_vars

----
\* enrich_business_data for a record without profile_url, and
\* search_profile_url. A link of the result page has its href (a profile
\* address, the selector asks for one) and the text of its enclosing result,
\* which names the business ("match"), names another ("other"), or cannot be
\* read: there is no such ancestor, or reading it raises ("unreadable").
MaxResults == 2
CheckedResults == 5
ResultHrefs == {201, 202}
Surroundings == {"match", "other", "unreadable"}
ResultLink(href, around) == [href |-> href, surrounding |-> around]
ResultLinks == {ResultLink(u, a) : u \in ResultHrefs, a \in Surroundings}
ResultPages == UNION {[1..n -> ResultLinks] : n \in 0..MaxResults}

\* What the body of "for link in profile_links[:5]" does with one link:
\* returns its href, or goes on to the next link.
ReturnsHref(link) == link.surrounding \in {"match", "unreadable"}

InitSearch ==
    /\ RunIdle
    /\ ListingIdle
    /\ CaptchaIdle
    /\ ChallengeIdle
    /\ PhoneIdle
    /\ DetectIdle
    /\ StartupIdle
    /\ GuiIdle
    /\ EnrichIdle
    /\ NameIdle
    /\ q_pc = "search"
    /\ profile_links \in ResultPages
    /\ q_k = 1
    /\ q_found = 0
    /\ profile_url = 0
    /\ q_continues = FALSE

\* driver.get(search_url), the challenge wait and find_elements; an error
\* there is caught and None is returned.
SearchSite ==
    /\ q_pc = "search"
    /\ \E raised \in BOOLEAN :
        q_pc' = IF raised THEN "assign" ELSE "links"
    /\ UNCHANGED <<notSearch, profile_links, q_k, q_found, profile_url,
                   q_continues>>

\* One iteration of "for link in profile_links[:5]", or the end of the loop.
CheckLink ==
    /\ q_pc = "links"
    /\ IF q_k <= Len(profile_links) /\ q_k <= CheckedResults
       THEN IF ReturnsHref(profile_links[q_k])
            THEN /\ q_found' = profile_links[q_k].href
                 /\ q_pc' = "assign"
                 /\ q_k' = q_k
            ELSE /\ q_k' = q_k + 1
                 /\ UNCHANGED <<q_pc, q_found>>
       ELSE /\ q_pc' = "assign"
            /\ UNCHANGED <<q_k, q_found>>
    /\ UNCHANGED <<notSearch, profile_links, profile_url, q_continues>>

\* enrich_business_data, lines 1645-1651: the URL found is stored and the
\* enrichment goes on; without one the record is returned as it is.
AssignProfileUrl ==
    /\ q_pc = "assign"
    /\ profile_url' = q_found
    /\ q_continues' = (q_found # 0)
    /\ q_pc' = "done"
    /\ UNCHANGED <<notSearch, profile_links, q_k, q_found>>

NextSearch ==
    \/ SearchSite
    \/ CheckLink
    \/ AssignProfileUrl

SpecSearch == InitSearch /\ [][NextSearch]_vars

----
\* enrich_business_data from the profile page on: where the phone comes
\* from. A listing has no website, phone or address of its own
\* (extract_business_info_from_card leaves them ''); the record always has a
\* name. The profile page, when the record has a profile URL, gives each of
\* the three or not, or its visit raises.
ProfilePages ==
    [known : BOOLEAN, raises : BOOLEAN, website : BOOLEAN, phone : BOOLEAN,
     address : BOOLEAN]

\* "if website and not business_data.get('phone')"
AsksWebsite(w, p) == w /\ ~p
\* The else branch of "if phone" under it, and "if business_name and
\* address".
AsksGoogle(w, p, a) == w /\ ~p /\ a

InitEnrich ==
    /\ RunIdle
    /\ ListingIdle
    /\ CaptchaIdle
    /\ ChallengeIdle
    /\ PhoneIdle
    /\ DetectIdle
    /\ StartupIdle
    /\ GuiIdle
    /\ NameIdle
    /\ SearchIdle
    /\ e_pc = "profile"
    /\ e_profile \in ProfilePages
    /\ e_site_phone \in BOOLEAN
    /\ e_google_phone \in BOOLEAN
    /\ website = FALSE
    /\ phone = FALSE
    /\ address = FALSE
    /\ e_attempts = <<>>
    /\ e_late = FALSE

enrichInputs == <<e_profile, e_site_phone, e_google_phone>>

\* "if profile_url:" get_data_from_profile_page and the merge of its data; an
\* error of the visit is caught and nothing is merged.
VisitProfile ==
    /\ e_pc = "profile"
    /\ IF e_profile.known
       THEN /\ e_attempts' = Append(e_attempts, "profile")
            /\ e_late' = (e_late \/ phone)
            /\ IF e_profile.raises
               THEN UNCHANGED <<website, phone, address>>
               ELSE /\ website' = (website \/ e_profile.website)
                    /\ phone' = (phone \/ e_profile.phone)
                    /\ address' = (address \/ e_profile.address)
       ELSE UNCHANGED <<website, phone, address, e_attempts, e_late>>
    /\ e_pc' = "website"
    /\ UNCHANGED <<notEnrich, enrichInputs>>

\* find_phone_on_website, asked when a website is known and the phone is
\* empty; otherwise the phone steps are over.
SearchWebsite ==
    /\ e_pc = "website"
    /\ IF AsksWebsite(website, phone)
       THEN /\ e_attempts' = Append(e_attempts, "website")
            /\ e_late' = (e_late \/ phone)
            /\ phone' = e_site_phone
            /\ e_pc' = IF AsksGoogle(website, e_site_phone, address)
                       THEN "google" ELSE "email"
       ELSE /\ e_pc' = "email"
            /\ UNCHANGED <<phone, e_attempts, e_late>>
    /\ UNCHANGED <<notEnrich, enrichInputs, website, address>>

\* search_google_for_phone(business_name, address).
SearchGoogle ==
    /\ e_pc = "google"
    /\ e_attempts' = Append(e_attempts, "google")
    /\ e_late' = (e_late \/ phone)
    /\ phone' = e_google_phone
    /\ e_pc' = "email"
    /\ UNCHANGED <<notEnrich, enrichInputs, website, address>>

\* The email step and "return business_data": the phone is left as it is.
ReturnRecord ==
    /\ e_pc = "email"
    /\ e_pc' = "done"
    /\ UNCHANGED <<notEnrich, enrichInputs, website, phone, address,
                   e_attempts, e_late>>

NextEnrich ==
    \/ VisitProfile
    \/ SearchWebsite
    \/ SearchGoogle
    \/ ReturnRecord

SpecEnrich == InitEnrich /\ [][NextEnrich]_vars

----
\* The GUI: ScraperThread.run works on the browser session in the worker
\* thread, one session operation after the other; the Stop button runs
\* stop_scraping in the GUI thread. The state starts when the worker holds
\* the constructed scraper. Nothing orders the two threads: run never reads
\* _is_running and close() takes no lock.
MaxOps == 6
SessionOps == {"navigate", "find", "execute_script"}

\* HomeAdvisorScraper.close() as called by either thread: "if self.driver:
\* self.driver.quit()"; the driver reference is never cleared, so every call
\* reaches quit().
CloseCalls(n) == n + 1

InitGui ==
    /\ RunIdle
    /\ ListingIdle
    /\ CaptchaIdle
    /\ ChallengeIdle
    /\ PhoneIdle
    /\ DetectIdle
    /\ StartupIdle
    /\ NameIdle
    /\ SearchIdle
    /\ EnrichIdle
    /\ g_worker = "between"
    /\ g_gui = "watching"
    /\ g_op = "none"
    /\ g_ops = 0
    /\ g_session = "open"
    /\ g_closes = 0
    /\ g_overlap = FALSE

\* The worker enters a session operation (driver.get, find_elements,
\* execute_script) of detect_total_pages or scrape_all_pages.
BeginOperation ==
    /\ g_worker = "between"
    /\ g_ops < MaxOps
    /\ \E op \in SessionOps : g_op' = op
    /\ g_ops' = g_ops + 1
    /\ g_worker' = "inside"
    /\ UNCHANGED <<notGui, g_gui, g_session, g_closes, g_overlap>>

\* The operation returns or raises. On a session that was quit it raises; the
\* scraper's handlers swallow the error and go on, or it reaches run's
\* "except Exception".
EndOperation ==
    /\ g_worker = "inside"
    /\ \E escapes \in BOOLEAN :
        /\ escapes => g_session = "closed"
        /\ g_worker' = IF escapes THEN "finally" ELSE "between"
    /\ g_op' = "none"
    /\ UNCHANGED <<notGui, g_gui, g_ops, g_session, g_closes, g_overlap>>

\* scrape_all_pages returns (or detect_total_pages returned 0).
FinishRun ==
    /\ g_worker = "between"
    /\ g_worker' = "finally"
    /\ UNCHANGED <<notGui, g_gui, g_op, g_ops, g_session, g_closes,
                   g_overlap>>

\* run's "finally: if self.scraper: self.scraper.close()".
FinallyClose ==
    /\ g_worker = "finally"
    /\ g_closes' = CloseCalls(g_closes)
    /\ g_session' = "closed"
    /\ g_worker' = "done"
    /\ UNCHANGED <<notGui, g_gui, g_op, g_ops, g_overlap>>

\* stop_scraping, confirmed, while isRunning(): scraper_thread.stop(), which
\* sets _is_running and calls scraper.close() in the GUI thread.
StopPressed ==
    /\ g_gui = "watching"
    /\ g_worker \in {"between", "inside", "finally"}
    /\ g_closes' = CloseCalls(g_closes)
    /\ g_overlap' = (g_overlap \/ g_worker = "inside")
    /\ g_session' = "closed"
    /\ g_gui' = "stopping"
    /\ UNCHANGED <<notGui, g_worker, g_op, g_ops>>

\* scraper_thread.terminate() and wait(): a worker that has not finished by
\* then is ended where it is.
Terminate ==
    /\ g_gui = "stopping"
    /\ g_worker' = IF g_worker = "done" THEN "done" ELSE "terminated"
    /\ g_op' = "none"
    /\ g_gui' = "stopped"
    /\ UNCHANGED <<notGui, g_ops, g_session, g_closes, g_overlap>>

NextGui ==
    \/ BeginOperation
    \/ EndOperation
    \/ FinishRun
    \/ FinallyClose
    \/ StopPressed
    \/ Terminate

SpecGui == InitGui /\ [][NextGui]_vars

----
\* Helpers of the properties.
Count(r, s) == Cardinality({k \in DOMAIN s : s[k] = r})
Rows(s) == {s[k] : k \in DOMAIN s}
ReturnedNormally == pc = "exited" /\ exit_kind = "done"

\* The last page the run looked at yielded records, none with a profile_url.
StopPageSeen ==
    /\ Len(served) > 0
    /\ Len(served[Len(served)]) > 0
    /\ \A k \in DOMAIN served[Len(served)] :
          served[Len(served)][k].profile_url = 0

\* C1: once a page has yielded at least one record and none of its records
\* has a profile_url, no listing page is loaded or extracted any more (the
\* page index does not advance and control never re-enters the retry loop),
\* and no record of that page is enriched or collected.
C1_StructuralStopIsFinal ==
    [][StopPageSeen =>
          /\ pc' # "scrape"
          /\ page_num' = page_num
          /\ served' = served
          /\ all_businesses' = all_businesses
          /\ last_enrich' = "none"]_vars

C1_Witness ==
    /\ ReturnedNormally
    /\ StopPageSeen
    /\ page_num < total_pages
    /\ Len(all_businesses) > 0

\* C2: a run that ended through the structural stop with every append
\* succeeding has appended each collected record exactly once.
C2_StopFlushesExactlyOnce ==
    (ReturnedNormally /\ struct_stop /\ append_failures = 0) =>
        \A r \in Rows(all_businesses) :
            Count(r, sheet) = Count(r, all_businesses)

\* C3: a run that exhausted the page range with every append succeeding has
\* appended as many data rows as it collected records, each record once.
C3_RowsEqualRecords ==
    (ReturnedNormally /\ ~struct_stop /\ append_failures = 0) =>
        /\ Len(sheet) = Len(all_businesses)
        /\ \A r \in Rows(all_businesses) :
              Count(r, sheet) = Count(r, all_businesses)

\* C4: in the 3-page scenario (page 1: 10 records with profile URLs, page 2:
\* no record on both attempts, page 3: 5 records without profile URL) the
\* run collects exactly the 10 records of page 1, counts one empty page,
\* stops at page 3 by the structural stop and returns those 10 records.
C4_Scenario ==
    /\ total_pages = 3
    /\ start_page = 1
    /\ served = <<PageFull, <<>>, PageNoProfile>>

C4_ThreePageScenario ==
    C4_Scenario =>
        /\ all_businesses = PageFull
        /\ empty_pages_count = 1
        /\ struct_stop
        /\ last_processed_page = 3
        /\ page_num = 3
        /\ ReturnedNormally => (businesses = Assigned(PageFull) /\ Len(businesses.value) = 10)

C4_Witness == C4_Scenario /\ ReturnedNormally /\ Len(businesses.value) = 10

\* C5: write_to_sheet calls append_rows at most 3 times, stops at the first
\* success (one group of rows persisted, once), sleeps 2 s then 4 s between
\* attempts, and raises if and only if all 3 attempts failed.
C5_WriteRetries ==
    /\ pc = "write" =>
          /\ w_calls = attempt
          /\ w_calls < 3
          /\ sleeps = SubSeq(<<2, 4>>, 1, w_calls)
          /\ Len(sheet) = w_base
    /\ w_outcome.result = "returned" =>
          /\ w_outcome.calls \in 1..3
          /\ w_outcome.failures = w_outcome.calls - 1
          /\ w_outcome.sleeps = SubSeq(<<2, 4>>, 1, w_outcome.failures)
          /\ w_outcome.added = w_outcome.rows
    /\ w_outcome.result = "raised" =>
          /\ w_outcome.calls = 3
          /\ w_outcome.failures = 3
          /\ w_outcome.sleeps = <<2, 4>>
          /\ w_outcome.added = 0

C5_Witness ==
    /\ w_outcome.result = "returned"
    /\ w_outcome.failures = 2
    /\ w_outcome.rows > 0

\* C6: an append that still fails after its retries, at whichever call site,
\* ends the run with the failure at the top level, and the records collected
\* so far are in the caller's hands.
C6_AppendFailureTerminates ==
    raised_sites # {} =>
        /\ pc \in {"closing", "exited"}
        /\ exit_kind = "error"
        /\ businesses = Assigned(all_businesses)

\* C7: when the operator interrupts the run, every collected record is in
\* the sheet by the time the browser session has been closed.
C7_InterruptFlushes ==
    (pc = "exited" /\ exit_kind = "interrupt" /\ append_failures = 0) =>
        \A r \in Rows(all_businesses) : r \in Rows(sheet)

\* C8: no two collected records share an identity (profile_url when present,
\* the name otherwise).
C8_UniqueIdentity ==
    \A a, b \in DOMAIN all_businesses :
        a # b => Identity(all_businesses[a]) # Identity(all_businesses[b])

\* C9: in one call of scrape_listings_from_page over cards that all have a
\* name, two cards with the same non-empty profile_url leave exactly one
\* emitted record with that profile_url, and it is not the later card's.
C9_SameUrlOneRecord ==
    (l_pc = "done" /\ \A k \in DOMAIN l_cards : l_cards[k].business_name # 0)
    =>
        \A a, b \in DOMAIN l_cards :
            (a < b /\ l_cards[a].profile_url # 0
                   /\ l_cards[a].profile_url = l_cards[b].profile_url) =>
                /\ Cardinality({j \in DOMAIN l_listings :
                      l_listings[j].profile_url = l_cards[a].profile_url}) = 1
                /\ \A j \in DOMAIN l_emitted : l_emitted[j] # b

\* C10: the solve operation returns no token obtained by a poll made more
\* than max_wait seconds after polling started.
C10_NoTokenPastCeiling ==
    c_result = "token" => c_poll_time <= max_wait

ChallengeReturned == h_pc \in {"returned", "done"}

\* C11: wait_for_cloudflare_challenge returns success only for a page without
\* any of the markers its detection uses, unless the operator confirmed in
\* visible-browser mode; and in headless mode a page that still shows such a
\* marker when the wait has run out gives failure and no listings.
C11_NoSuccessOnChallengePage ==
    /\ (ChallengeReturned /\ h_result = "success" /\ h_path # "manual")
          => ~IsCloudflare(h_page)
    /\ (h_pc = "done" /\ h_headless /\ h_detected /\ h_clock >= h_max_wait
           /\ IsCloudflare(h_page))
          => (h_result = "failure" /\ h_listings = "empty")

\* C18: once a challenge has been detected, a tick of the waiting loop
\* reports it resolved only on a page where the challenge markers are gone
\* and a content marker is present.
C18_ResolvedNeedsBoth ==
    (ChallengeReturned /\ h_detected /\ h_result = "success"
        /\ h_path \in {"content", "token", "cleared"})
    =>
        /\ ~OnChallengePage(h_page)
        /\ h_page.on_site
        /\ (h_page.site_content \/ h_page.heading)

\* C20 as stated: no error escapes; an error of the auto-solving phase leads
\* to the waiting phase; any other caught error makes the result a failure.
C20_OtherErrorsFail ==
    /\ h_result # "raised"
    /\ h_last_error \in {"solve", "inject"} => h_pc = "wait"
    /\ (ChallengeReturned /\ h_other_error) => h_result = "failure"

\* C20, amended: no error escapes wait_for_cloudflare_challenge; an error of
\* the auto-solving phase (token injection included) leads to the waiting
\* phase; an error in challenge detection or in the final check gives the
\* failure result; an error in the quick content check or in a tick of the
\* waiting loop is swallowed and the operation goes on.
C20_ErrorsAreContained ==
    /\ h_result # "raised"
    /\ h_listings # "raised"
    /\ h_last_error \in {"solve", "inject"} =>
          (h_pc = "wait" /\ h_result = "none")
    /\ h_last_error \in {"detect", "final"} =>
          (ChallengeReturned /\ h_result = "failure")
    /\ h_last_error = "tick" => (h_pc = "wait" /\ h_result = "none")
    /\ h_last_error = "quick" => h_path \in {"none", "not_cloudflare"}

C20_Witness ==
    /\ h_pc = "done"
    /\ h_solver
    /\ h_detected
    /\ h_last_error = "final"
    /\ h_result = "failure"
    /\ h_listings = "empty"

\* C12: an exception of scrape_listings_from_page or of enrich_business_data
\* does not leave scrape_all_pages: after the former the retry loop goes on
\* to the next attempt or to the check of the page, and after the latter the
\* listing is appended once, as it was, and the loop goes on with the next
\* record (through the write of a full group when one is due).
C12_FailuresStayInside ==
    [][/\ last_scrape' = "raised" =>
             /\ pc' \in {"scrape", "check"}
             /\ pc' = "scrape" => retry' = retry + 1
             /\ exit_kind' = exit_kind
             /\ all_businesses' = all_businesses
             /\ page_num' = page_num
       /\ last_enrich' = "raised" =>
             /\ all_businesses' = Append(all_businesses, listings[i])
             /\ exit_kind' = exit_kind
             /\ \/ pc' = "enrich" /\ i' = i + 1
                \/ pc' = "write" /\ w_site' = "group"
      ]_vars

C12_Witness ==
    /\ last_enrich = "raised"
    /\ pc = "enrich"
    /\ i > 1
    /\ Len(served) >= 2
    /\ served[1] = <<>>

\* C17: a page is extracted at most twice, the second time only after a
\* first attempt without listings; a page without listings after both
\* attempts adds 1 to empty_pages_count, adds no record, does not set off the
\* structural stop, and the loop goes on with the next page.
C17_TwoAttemptsThenSkip ==
    [][/\ pc = "scrape" =>
             /\ retry \in {0, 1}
             /\ retry = 1 => Len(listings) = 0
       /\ (pc = "scrape" /\ pc' = "scrape") =>
             /\ retry = 0
             /\ retry' = 1
             /\ Len(listings') = 0
       /\ (pc = "check" /\ Len(listings) = 0 /\ exit_kind' # "interrupt") =>
             /\ retry = 1
             /\ empty_pages_count' = empty_pages_count + 1
             /\ all_businesses' = all_businesses
             /\ struct_stop' = struct_stop
             /\ pc' = "loop"
             /\ page_num' = page_num + 1
      ]_vars

C17_Witness ==
    /\ pc = "scrape"
    /\ page_num = start_page + 1
    /\ empty_pages_count = 1
    /\ served = <<<<>>>>
    /\ all_businesses = <<>>
    /\ ~struct_stop

\* The pattern (\d{3}) \d{3}-\d{4}, matched against the whole text.
MatchesPhoneFormat(t) ==
    /\ Len(t) = 14
    /\ t[1] = "(" /\ t[5] = ")" /\ t[6] = " " /\ t[10] = "-"
    /\ \A k \in {2, 3, 4, 7, 8, 9, 11, 12, 13, 14} : t[k] \in DigitChars

DigitsOf(t) == SelectSeq(t, LAMBDA c : c \in DigitChars)

PhoneAccepted ==
    Len(DigitsOf(p_input)) = 10
        \/ (Len(DigitsOf(p_input)) = 11 /\ DigitsOf(p_input)[1] = "1")

\* C13: a candidate whose digits are accepted gives a value of the form
\* (ddd) ddd-dddd, and normalizing that value gives the same value.
C13_FormatAndIdempotence ==
    /\ (p_pc \in {"again", "done"} /\ PhoneAccepted) =>
          MatchesPhoneFormat(p_phone)
    /\ (p_pc = "done" /\ PhoneAccepted) => p_again = p_phone

C13_Witness ==
    /\ p_pc = "done"
    /\ Len(DigitsOf(p_input)) = 11
    /\ p_input[1] = "+"
    /\ MatchesPhoneFormat(p_again)

CeilTenth(z) == CHOOSE n \in 0..z : n * 10 >= z /\ (n - 1) * 10 < z

\* The elements that carry a summary "X-Y of Z", in document order.
SummaryElements == {k \in DOMAIN d_elements : FirstMatch(d_elements[k]) # <<>>}
FirstSummaryTotal ==
    LET k == CHOOSE m \in SummaryElements : \A n \in SummaryElements : m <= n
    IN  ParseInt(FirstMatch(d_elements[k]))

\* C15: when no driver call failed and the page carries a summary
\* "X-Y of Z", detect_total_pages returns ceil(Z / 10) for the Z of the first
\* element with a summary, and for the Z of the first summary in the page
\* text only when no element has one.
C15_TotalPagesFromSummary ==
    (d_pc = "done" /\ ~d_failed) =>
        /\ SummaryElements # {} => d_result = CeilTenth(FirstSummaryTotal)
        /\ (SummaryElements = {} /\ FirstMatch(PageSource) # <<>>) =>
              d_result = CeilTenth(ParseInt(FirstMatch(PageSource)))

NoOutsideActivity ==
    ~s_browser /\ ~s_captcha_contacted /\ ~s_store_touched

\* C16: with the credential file missing the start ends with a message and
\* without a browser session, a request to the CAPTCHA service or an access
\* to the sheet; and nothing of the kind has happened on any path by the
\* time the credential check is made.
C16_CredentialCheckFirst ==
    /\ s_pc \in {"arguments", "credentials"} => NoOutsideActivity
    /\ (s_pc = "exited" /\ s_message # "no_url" /\ ~s_credentials) =>
          (s_message = "no_credentials" /\ NoOutsideActivity)
    /\ (s_pc \notin {"idle", "arguments", "credentials", "exited"}) =>
          s_credentials

C16_Witness ==
    /\ s_pc = "exited"
    /\ s_entry = "cli"
    /\ s_api_key
    /\ ~s_credentials
    /\ s_message = "no_credentials"
    /\ NoOutsideActivity

PendingResponse(r) == r.request = "CAPCHA_NOT_READY"
SuccessResponse(r) == r.status = 1 /\ ~PendingResponse(r)

\* C19: a "not ready" answer never ends the solve with failure, and another
\* poll follows while the elapsed time is under 120 s; an answer that is
\* neither a success nor "not ready" ends the polling at once with failure;
\* a token is returned only for an answer with status 1 whose request is not
\* the "not ready" marker.
C19_PollingVerdicts ==
    [][/\ (c_pc = "poll" /\ PendingResponse(c_response')) =>
             (c_pc' = "loop" /\ c_result' = "none")
       /\ (c_pc = "loop" /\ c_clock < 120) => c_pc' = "poll"
       /\ (c_pc = "poll" /\ ~PendingResponse(c_response')
              /\ ~SuccessResponse(c_response')) =>
             (c_pc' = "done" /\ c_result' = "failed")
       /\ (c_pc = "poll" /\ c_result' = "token") =>
             (SuccessResponse(c_response') /\ c_token' = c_response'.request)
      ]_vars

\* C21: neither the solve operation nor the balance query raises; a network
\* error or a malformed answer on submit, on poll or on balance gives the
\* failure result; a submission that failed is followed by no poll and no
\* second submission.
C21_SolverNeverRaises ==
    /\ c_result # "raised"
    /\ c_balance \in {"unasked", "balance", "no_balance"}
    /\ c_submits <= 1
    /\ c_submit \in {"rejected", "malformed", "exception"} =>
          (c_pc = "done" /\ c_result = "failed" /\ ~c_polled)
    /\ c_response = RaisedResponse => (c_pc = "done" /\ c_result = "failed")
    /\ ~c_enabled => (c_submits = 0 /\ ~c_polled)

C21_Witness ==
    /\ c_pc = "done"
    /\ c_enabled
    /\ c_balance = "no_balance"
    /\ c_submit = "exception"
    /\ c_result = "failed"
    /\ ~c_polled

\* C22 as stated: after detection the checks of the waiting loop are one
\* interval apart at most, and the loop is left no later than one interval
\* after the ceiling.
C22_StopsWithinOneInterval ==
    [][/\ (h_pc = "wait" /\ h_pc' = "wait") => h_clock' - h_clock <= h_interval
       /\ h_detected' => h_clock' <= h_max_wait' + h_interval'
      ]_vars

\* C22, amended: in headless mode the operation always ends with a verdict.
\* After detection the interval is 2 s and the ceiling at most 30 s for an
\* auto-bypass session, 5 s and 60 s otherwise; an iteration that does not
\* return takes 1 s after an error, else one interval, plus 3 s when a
\* response token was seen; no iteration starts at or after the ceiling, so
\* the loop is left less than one interval plus 3 s after the ceiling, and
\* the final check then returns at once.
C22_BoundedWait ==
    [][/\ h_detected' =>
             /\ h_interval' = (IF h_undetected THEN 2 ELSE 5)
             /\ h_max_wait' = (IF h_undetected THEN 30 ELSE 60)
       /\ (h_pc = "wait" /\ h_pc' = "wait") =>
             /\ h_clock < h_max_wait
             /\ h_clock' - h_clock \in {1, h_interval, h_interval + 3}
       /\ h_pc' = "wait" => h_clock' < h_max_wait' + h_interval' + 3
       /\ (h_pc = "wait" /\ h_clock >= h_max_wait) =>
             /\ h_pc' = "returned"
             /\ h_headless => h_result' \in {"success", "failure"}
       /\ h_pc' \in {"returned", "done"} =>
             h_result' \in {"success", "failure"}
      ]_vars

C22_Witness ==
    /\ h_pc = "done"
    /\ h_headless
    /\ h_detected
    /\ h_clock > h_max_wait + h_interval
    /\ h_result = "failure"
    /\ h_path = "timeout"

\* The identities accepted so far in the pass over the cards of a page.
AcceptedIdentities == {Identity(l_listings[j]) : j \in DOMAIN l_listings}

\* C23: within one pass over the cards of a page, a card is emitted exactly
\* when it has a name and its identity (profile_url when present, the name
\* otherwise) was not accepted earlier in the pass; so two cards with the same
\* name and different profile URLs are both emitted.
C23_EmittedUnlessIdentitySeen ==
    [][(l_pc = "pass" /\ l_k <= Len(l_cards) /\ l_k' = l_k + 1) =>
          ((l_listings' = Append(l_listings, l_cards[l_k]))
             <=> (/\ l_cards[l_k].business_name # 0
                  /\ Identity(l_cards[l_k]) \notin AcceptedIdentities))
      ]_vars

\* The first non-empty text among the places of a card from place k on, 0
\* when there is none.
RECURSIVE FirstNonEmpty(_, _)
FirstNonEmpty(card, k) ==
    IF k > Strategies THEN 0
    ELSE IF card[k].found /\ card[k].text # 0 THEN card[k].text
    ELSE FirstNonEmpty(card, k + 1)

\* C24: the extracted name is the value of the first strategy, in the order
\* desktop heading, mobile heading, generic heading, link label, that yields
\* a non-empty value; it is empty only if every strategy yields nothing.
C24_FirstNonEmptyWins ==
    n_pc = "done" => business_name = FirstNonEmpty(n_card, 1)

\* C25: the site search assigns a profile URL only from a result whose
\* surrounding text contains the business name; when no result qualifies
\* (an unreadable surrounding text does not qualify) the record is returned
\* with profile_url still empty and nothing else is done to it.
C25_OnlyMatchingResult ==
    q_pc = "done" =>
        /\ profile_url # 0 =>
              \E k \in DOMAIN profile_links :
                  /\ profile_links[k].href = profile_url
                  /\ profile_links[k].surrounding = "match"
        /\ (\A k \in DOMAIN profile_links :
                profile_links[k].surrounding # "match") =>
              (profile_url = 0 /\ ~q_continues)

Asked(step) == \E k \in DOMAIN e_attempts : e_attempts[k] = step

\* C26: the phone sources are asked in the order profile page, business
\* website (only if a website is known), web search; no source is asked once
\* the phone is filled; and whenever the phone is still empty after the
\* earlier steps the web search is asked, whether or not a website is known:
\* a record returned without a phone has been through the web search.
C26_WebSearchWheneverEmpty ==
    /\ \A j, k \in DOMAIN e_attempts :
          (j < k) =>
              \/ e_attempts[j] = "profile" /\ e_attempts[k] # "profile"
              \/ e_attempts[j] = "website" /\ e_attempts[k] = "google"
    /\ Asked("website") => website
    /\ ~e_late
    /\ (e_pc = "done" /\ ~phone) => Asked("google")

\* C27: once the browser session has been opened, it is closed before the
\* entry point returns; here on the exit through an error raised by the
\* rest of the initialisation after the browser was started.
C27_SessionClosedAtExit ==
    (s_pc = "exited" /\ s_browser) => s_closed

\* C28: close() is never called on the session while the worker thread is
\* inside a session operation, a GUI Stop included, and the session is closed
\* at most once.
C28_SessionOneThreadAtATime ==
    /\ ~g_overlap
    /\ g_closes <= 1

\* The visited pages that yielded no listing.
EmptyServed == {k \in DOMAIN served : Len(served[k]) = 0}

\* C29: the summary of a run that returned reports an early stop if and only
\* if the run ended through the structural stop condition (so not when the
\* last pages were empty and skipped), and the reported empty-page count is
\* the number of visited pages that yielded no listing.
C29_EarlyStopMeansStructuralStop ==
    ReturnedNormally =>
        /\ stopped_early <=> struct_stop
        /\ empty_pages_count = Cardinality(EmptyServed)

\* C30: when scrape_all_pages has returned normally and its last write, the
\* one after the loop, succeeded, every record it returns is in the sheet at
\* least once, also when group-of-10 writes failed before.
C30_ReturnedRecordsStored ==
    (ReturnedNormally /\ "final" \notin raised_sites) =>
        \A r \in Rows(businesses.value) : r \in Rows(sheet)

C30_Witness ==
    /\ ReturnedNormally
    /\ "group" \in raised_sites
    /\ "final" \notin raised_sites
    /\ Len(businesses.value) >= BatchSize
    /\ Len(sheet) = Len(businesses.value)

====
